---------------------------- MODULE Spec2Model ----------------------------
(***************************************************************************)
(* State-machine model of mruby's Time class (mrbgems/mruby-time/src/      *)
(* time.c) and of the expression evaluator of the debugger                 *)
(* (mrbgems/mruby-bin-debugger/tools/mrdb/apiprint.c).                     *)
(*                                                                         *)
(* Integer widths.  time.c selects its limits from sizeof(time_t)          *)
(* (MRB_TIME_MIN / MRB_TIME_MAX, lines 202-210) and its year test from     *)
(* MRB_INT_MAX > INT_MAX (OUTINT, lines 493-497).  The model takes the     *)
(* sizeof(time_t) <= 4 arm with a signed time_t, on an ILP32 target with   *)
(* MRB_INT32: int, long, time_t and mrb_int are all 32 bits wide.          *)
(*                                                                         *)
(* Signed overflow.  An addition, subtraction or multiplication of signed  *)
(* operands that leaves 32 bits is undefined in C.  The operators below    *)
(* compute the two's complement result and report in a flag `ub` that the  *)
(* operation overflowed; the action that ran the computation then takes    *)
(* either outcome such a build produces: the wrapped result ("wrap") or    *)
(* the abort of the process ("trap", a build with -ftrapv or a sanitizer). *)
(*                                                                         *)
(* Builds.  Two builds of the same source are modelled; `build` is fixed   *)
(* by Init and never changes:                                              *)
(*   "libc"  - gmtime_r/localtime_r convert every 32-bit time_t (glibc or  *)
(*             newlib); NO_GETTIMEOFDAY is defined, so Time.now uses       *)
(*             time(NULL) and the last_sec/last_usec statics (426-440).    *)
(*   "win32" - the _WIN32 arm without _MSC_VER (58-66, 134-137):           *)
(*             NO_GMTIME_R, gmtime/localtime return NULL for instants      *)
(*             before their lower limits (GMTIME_MIN, LOCALTIME_MIN), and  *)
(*             the clock is read with gettimeofday (441-448).              *)
(***************************************************************************)
EXTENDS Integers, Sequences, FiniteSets, TLC

VARIABLES build, proc, heap, data, last_sec, last_usec, ret, steps, mrb

vars == <<build, proc, heap, data, last_sec, last_usec, ret, steps, mrb>>

-----------------------------------------------------------------------------
(* Bounds of the model *)

\* number of Ruby-level calls in one run
MaxSteps == 2

-----------------------------------------------------------------------------
(* Program constants *)

\* line 209: (sizeof(time_t) <= 4 ? INT32_MAX : INT64_MAX)
MRB_TIME_MAX == 2147483647

\* line 205: (sizeof(time_t) <= 4 ? INT32_MIN : INT64_MIN)
MRB_TIME_MIN == -MRB_TIME_MAX - 1

\* MRB_INT_MIN of an MRB_INT32 build: mrb_int is as wide as time_t
MRB_INT_MIN == MRB_TIME_MIN

\* the literal 1000000 of time_alloc_time (lines 367-373)
USEC_PER_SEC == 1000000

\* enum mrb_timezone (mruby/time.h), used at lines 332, 453, 821, 836
MRB_TIMEZONE_UTC == "UTC"
MRB_TIMEZONE_LOCAL == "LOCAL"

\* the 24*60*60 of timegm (lines 162-170)
SECS_PER_DAY == 24 * 60 * 60

\* seconds east of UTC of the process's local zone, as localtime_r (336) and
\* mktime (522) see it: a fixed-offset zone without daylight saving time
UTC_OFFSET == 3600

\* lower limits of the win32 CRT conversions behind gmtime / localtime
\* (lines 135-136): gmtime accepts instants from 12 hours before the epoch,
\* localtime accepts none before the epoch
GMTIME_MIN == -43200
LOCALTIME_MIN == 0

\* the null data pointer (DATA_PTR of an object that was never initialized)
NULL == 0

-----------------------------------------------------------------------------
(* 32-bit int / long / time_t arithmetic *)

\* TRUE iff a + b leaves [MRB_TIME_MIN, MRB_TIME_MAX]
AddOverflows(a, b) ==
  IF b >= 0 THEN a > MRB_TIME_MAX - b ELSE a < MRB_TIME_MIN - b

\* TRUE iff a - b leaves [MRB_TIME_MIN, MRB_TIME_MAX]
SubOverflows(a, b) ==
  IF b >= 0 THEN a < MRB_TIME_MIN + b ELSE a > MRB_TIME_MAX + b

\* TRUE iff a * b leaves 32 bits, for b > 0 that does not divide 2^31
MulOverflows(a, b) ==
  a > MRB_TIME_MAX \div b \/ a < -(MRB_TIME_MAX \div b)

\* a + b modulo 2^32
TimeTAdd(a, b) ==
  IF b >= 0 /\ a > MRB_TIME_MAX - b
    THEN ((a - MRB_TIME_MAX) + (b - MRB_TIME_MAX)) - 2
  ELSE IF b < 0 /\ a < MRB_TIME_MIN - b
    THEN (a - MRB_TIME_MIN) + (b - MRB_TIME_MIN)
  ELSE a + b

\* a - b modulo 2^32
TimeTSub(a, b) ==
  IF b = MRB_TIME_MIN THEN TimeTAdd(a, MRB_TIME_MIN) ELSE TimeTAdd(a, -b)

\* x * p modulo 2^32 for a power of two p, with m = 2^32 / p
Shl(x, p, m) == (IF x % m >= m \div 2 THEN (x % m) - m ELSE x % m) * p

\* n * c modulo 2^32, for n >= 0 and 0 <= c < 2^25: the sum of the four
\* products of the halves n = nh * 2^16 + nl and c = ch * 2^13 + cl
TimeTScale(n, c) ==
  LET nh == n \div 65536
      nl == n % 65536
      ch == c \div 8192
      cl == c % 8192
  IN  TimeTAdd(TimeTAdd(Shl(nh * ch, 536870912, 8), Shl(nh * cl, 65536, 65536)),
               TimeTAdd(Shl(nl * ch, 8192, 524288), nl * cl))

\* a * b in long, for the products sec2 * 1000000 of lines 368, 373
LongMul(a, b) ==
  IF a >= 0 THEN TimeTScale(a, b) ELSE TimeTSub(0, TimeTScale(-a, b))

\* C's integer division x / y for y > 0: truncates toward zero
CDiv(x, y) == IF x >= 0 THEN x \div y ELSE -((-x) \div y)

\* line 26: #define NDIV(x,y) (-(-((x)+1)/(y))-1)
NDIV(x, y) == -CDiv(-(x + 1), y) - 1

\* 2^32 % m
TwoTo32Mod(m) == ((MRB_TIME_MAX % m) * 2 + 2) % m

\* (unsigned int)y % m
UMod(y, m) == IF y >= 0 THEN y % m ELSE ((y % m) + TwoTo32Mod(m)) % m

-----------------------------------------------------------------------------
(* The platform's calendar: proleptic Gregorian, as gmtime/mktime use it *)

DaysOfEra(era, yoe, doy) ==
  era * 146097 + (yoe * 365 + (yoe \div 4) - (yoe \div 100) + doy) - 719468

DaysFromYear(yy, mp) == DaysOfEra(yy \div 400, yy % 400, (153 * mp + 2) \div 5)

\* days from 1970-01-01 to the first day of month m (1..12) of year y
DaysFromCivil(y, m) ==
  DaysFromYear(IF m <= 2 THEN y - 1 ELSE y, IF m > 2 THEN m - 3 ELSE m + 9)

CivilOfMonth(era, yoe, doy, mp) ==
  [year  |-> yoe + era * 400 + (IF mp >= 10 THEN 1 ELSE 0),
   month |-> IF mp < 10 THEN mp + 3 ELSE mp - 9,
   day   |-> doy - ((153 * mp + 2) \div 5) + 1]

CivilOfDoy(era, yoe, doy) == CivilOfMonth(era, yoe, doy, (5 * doy + 2) \div 153)

CivilOfYoe(era, doe, yoe) ==
  CivilOfDoy(era, yoe, doe - (365 * yoe + (yoe \div 4) - (yoe \div 100)))

CivilOfDoe(era, doe) ==
  CivilOfYoe(era, doe,
             (doe - (doe \div 1460) + (doe \div 36524) - (doe \div 146096)) \div 365)

\* the calendar date of day z (days since 1970-01-01)
CivilFromDays(z) == CivilOfDoe((z + 719468) \div 146097, (z + 719468) % 146097)

TmOfDate(days, rem, c) ==
  [tm_year |-> c.year - 1900,
   tm_mon  |-> c.month - 1,
   tm_mday |-> c.day,
   tm_hour |-> rem \div 3600,
   tm_min  |-> (rem % 3600) \div 60,
   tm_sec  |-> rem % 60,
   tm_wday |-> (days + 4) % 7,
   tm_yday |-> days - DaysFromCivil(c.year, 1)]

TmOfDay(days, rem) == TmOfDate(days, rem, CivilFromDays(days))

\* struct tm for the instant that lies `off` seconds east of UTC instant t;
\* t + off is split into days and seconds of the day without leaving 32 bits
BrokenDown(t, off) ==
  TmOfDay((t \div SECS_PER_DAY) + (((t % SECS_PER_DAY) + off) \div SECS_PER_DAY),
          ((t % SECS_PER_DAY) + off) % SECS_PER_DAY)

\* gmtime_r(&t, ...) (line 333): ok = FALSE is the NULL return of a build
\* whose conversion rejects t
gmtime_r(b, t) ==
  [ok |-> ~(b = "win32" /\ t < GMTIME_MIN), tm |-> BrokenDown(t, 0)]

\* localtime_r(&t, ...) (line 336)
localtime_r(b, t) ==
  [ok |-> ~(b = "win32" /\ t < LOCALTIME_MIN), tm |-> BrokenDown(t, UTC_OFFSET)]

\* the time_t of second `rem` of day `days`, (time_t)-1 when it does not fit
\* (24855 * 86400 + 11647 = MRB_TIME_MAX; -24856 * 86400 + 74752 =
\* MRB_TIME_MIN) and, on win32, for every instant before the epoch
MktimeOfDay(b, days, rem) ==
  LET fits == \/ (days > -24856 /\ days < 24855)
              \/ (days = 24855 /\ rem <= 11647)
              \/ (days = 24856 /\ rem + SECS_PER_DAY <= 11647)
              \/ (days = -24856 /\ rem >= 74752)
              \/ (days = -24857 /\ rem - SECS_PER_DAY >= 74752)
      r    == IF days >= 24855
                THEN (MRB_TIME_MAX - 11647) + ((days - 24855) * SECS_PER_DAY + rem)
              ELSE IF days <= -24856
                THEN MRB_TIME_MIN + ((days + 24856) * SECS_PER_DAY + (rem - 74752))
              ELSE days * SECS_PER_DAY + rem
  IN  IF ~fits THEN -1
      ELSE IF b = "win32" /\ r < 0 THEN -1
      ELSE r

\* mktime(&tm) (line 522): the local fields are normalised (a day past the end
\* of the month runs into the next one) and UTC_OFFSET is taken off; a year
\* far outside the range of time_t gives (time_t)-1
mktime(b, tm) ==
  IF tm.tm_year < -1900 \/ tm.tm_year > 1000 THEN -1
  ELSE MktimeOfDay(b,
         DaysFromCivil(tm.tm_year + 1900, tm.tm_mon + 1) + (tm.tm_mday - 1),
         tm.tm_hour * 3600 + tm.tm_min * 60 + tm.tm_sec - UTC_OFFSET)

-----------------------------------------------------------------------------
(* timegm: the file's own implementation (USE_SYSTEM_TIMEGM is not defined) *)

\* lines 142-146; the parameter is an unsigned int
is_leapyear(y) ==
  UMod(y, 4) = 0 /\ (UMod(y, 100) # 0 \/ UMod(y, 400) = 0)

\* lines 151-154: ndays[is_leapyear][month]
ndays(leap, i) ==
  IF i = 1 THEN (IF leap THEN 29 ELSE 28)
  ELSE IF i \in {3, 5, 8, 10} THEN 30
  ELSE 31

\* the number of years y in 1 .. n that is_leapyear accepts (n >= -1)
LeapYearsUpTo(n) == (n \div 4) - (n \div 100) + (n \div 400)

\* the number of i in lo .. hi - 1 for which is_leapyear(i + 1900) holds
\* (lo >= -1900: the years of the loop are not negative)
LeapYears(lo, hi) == LeapYearsUpTo((hi - 1) + 1900) - LeapYearsUpTo((lo - 1) + 1900)

\* r after the loop of lines 160-163 or 164-167 over the years lo .. hi - 1:
\* sign * (365 * 86400 per year + 86400 per leap year), and whether one of
\* its additions overflowed (69 years or more)
YearLoop(lo, hi, forward) ==
  [r  |-> IF forward
            THEN TimeTAdd(TimeTScale(hi - lo, 365 * SECS_PER_DAY),
                          TimeTScale(LeapYears(lo, hi), SECS_PER_DAY))
            ELSE TimeTSub(0, TimeTAdd(TimeTScale(hi - lo, 365 * SECS_PER_DAY),
                                      TimeTScale(LeapYears(lo, hi), SECS_PER_DAY))),
   ub |-> hi - lo > 68]

\* the days of the months 0 .. mon - 1 (lines 168-169)
RECURSIVE MonthDays(_, _)
MonthDays(mon, leap) ==
  IF mon = 0 THEN 0 ELSE MonthDays(mon - 1, leap) + ndays(leap, mon - 1)

\* r += x for a signed int x (lines 162, 166, 170-173)
Acc(acc, x) ==
  [r |-> TimeTAdd(acc.r, x), ub |-> acc.ub \/ AddOverflows(acc.r, x)]

\* r += x for an unsigned int x (line 169): computed modulo 2^32
AccUnsigned(acc, x) == [r |-> TimeTAdd(acc.r, x), ub |-> acc.ub]

\* line 156: tm->tm_year+1900, an int addition
TmYear1900(tm) ==
  [r |-> TimeTAdd(tm.tm_year, 1900), ub |-> AddOverflows(tm.tm_year, 1900)]

\* lines 159-167
timegm_years(tm, epoch_year) ==
  IF tm.tm_year >= epoch_year
    THEN YearLoop(epoch_year, tm.tm_year, TRUE)
    ELSE YearLoop(tm.tm_year, epoch_year, FALSE)

\* lines 168-174 on the r of the year loop; y is tm->tm_year+1900
timegm_rest(tm, years, y) ==
  Acc(Acc(Acc(Acc(AccUnsigned([r |-> years.r, ub |-> years.ub \/ y.ub],
                              MonthDays(tm.tm_mon, is_leapyear(y.r)) * SECS_PER_DAY),
                  (tm.tm_mday - 1) * SECS_PER_DAY),
              tm.tm_hour * 60 * 60),
          tm.tm_min * 60),
      tm.tm_sec)

\* lines 148-175
timegm(tm) == timegm_rest(tm, timegm_years(tm, 70), TmYear1900(tm))

-----------------------------------------------------------------------------
(* struct mrb_time and the heap *)

\* the variables of the Ruby program that hold Time objects
Objs == {1, 2, 3}

\* addresses mrb_malloc hands out: a call allocates its result while every
\* variable still holds its object
Addrs == {1, 2, 3, 4}

ZeroTm == [tm_year |-> 0, tm_mon |-> 0, tm_mday |-> 0, tm_hour |-> 0,
           tm_min |-> 0, tm_sec |-> 0, tm_wday |-> 0, tm_yday |-> 0]

\* a heap cell that holds no struct mrb_time (never allocated, or freed)
FreeCell == [used |-> FALSE, sec |-> 0, usec |-> 0,
             timezone |-> "none", datetime |-> ZeroTm]

\* lines 193-198: struct mrb_time
MrbTime(sec, usec, timezone, datetime) ==
  [used |-> TRUE, sec |-> sec, usec |-> usec,
   timezone |-> timezone, datetime |-> datetime]

\* mrb_malloc: the lowest free address
Malloc(h) == CHOOSE a \in Addrs : ~h[a].used /\ \A c \in Addrs : ~h[c].used => a <= c

\* the struct behind object o, FreeCell when its data pointer is NULL
Deref(h, dp, o) == IF dp[o] = NULL THEN FreeCell ELSE h[dp[o]]

-----------------------------------------------------------------------------
(* Conversions and constructors (pure parts).  A constructor returns       *)
(* [exc, tm, ub]: exc = "none" and the new struct tm, or the error raised  *)
(* and in tm what the call left allocated when it raised: FreeCell, since  *)
(* the struct was freed (dealloc = TRUE) or the raise came before          *)
(* mrb_malloc; ub as described above.                                      *)

Raise(e) == [exc |-> e, tm |-> FreeCell, ub |-> FALSE]

WithUb(r, ub) == [r EXCEPT !.ub = @ \/ ub]

\* lines 338-348 on the result aid of the conversion: ok = FALSE is the raise
\* of line 340, "out of Time range".  A failed conversion leaves
\* self->datetime as it was (NO_GMTIME_R copies *aid only at line 345).
time_update_datetime_aid(self, aid) ==
  IF ~aid.ok THEN [ok |-> FALSE, tm |-> self]
  ELSE [ok |-> TRUE, tm |-> [self EXCEPT !.datetime = aid.tm]]

\* lines 326-349: time_update_datetime
time_update_datetime(b, self) ==
  time_update_datetime_aid(self,
    IF self.timezone = MRB_TIMEZONE_UTC
      THEN gmtime_r(b, self.sec)
      ELSE localtime_r(b, self.sec))

\* time_update_datetime that raises without freeing self (dealloc ignored): a
\* faulty variant, which property C17 must tell from the source
AllocatedNoFree(u, ub) ==
  IF u.ok THEN [exc |-> "none", tm |-> u.tm, ub |-> ub]
  ELSE [exc |-> "out of Time range", tm |-> u.tm, ub |-> ub]

\* time_update_datetime(mrb, tm, TRUE) as the last step of a constructor:
\* line 339 frees the struct before the raise of line 340
Allocated(u, ub) ==
  IF u.ok THEN [exc |-> "none", tm |-> u.tm, ub |-> ub]
  ELSE [exc |-> "out of Time range", tm |-> FreeCell, ub |-> ub]

\* lines 367-369 and 372-374: usec -= sec2 * 1000000; sec += sec2
Carry(sec, usec, sec2) ==
  [sec  |-> TimeTAdd(sec, sec2),
   usec |-> TimeTSub(usec, LongMul(sec2, USEC_PER_SEC)),
   ub   |-> AddOverflows(sec, sec2) \/ MulOverflows(sec2, USEC_PER_SEC)]

\* lines 364-375: the carry of time_alloc_time
Normalize(sec, usec) ==
  IF usec < 0 THEN Carry(sec, usec, NDIV(usec, USEC_PER_SEC))
  ELSE IF usec >= USEC_PER_SEC THEN Carry(sec, usec, CDiv(usec, USEC_PER_SEC))
  ELSE [sec |-> sec, usec |-> usec, ub |-> FALSE]

\* lines 376-379 on the carried sec and usec
time_alloc_carried(b, n, timezone) ==
  Allocated(time_update_datetime(b, MrbTime(n.sec, n.usec, timezone, ZeroTm)), n.ub)

\* lines 358-380: time_alloc_time
time_alloc_time(b, sec, usec, timezone) ==
  time_alloc_carried(b, Normalize(sec, usec), timezone)

\* A numeric argument.  An Integer is its value; a Float is given by its floor
\* and by the microseconds trunc((f - floor(f)) * 1e6) of its fraction.
IntArg(i) == [kind |-> "int", t |-> i, usec |-> 0]
FloatArg(t, usec) == [kind |-> "float", t |-> t, usec |-> usec]

\* lines 223-301: mrb_to_time_t with usec != NULL.  mrb_int is as wide as
\* time_t here, so the Integer arm's range test (279-280) never fires.
mrb_to_time_t(obj) ==
  IF obj.kind = "float"
    THEN IF obj.t >= MRB_TIME_MAX - 1 \/ obj.t < MRB_TIME_MIN + 1
           THEN [exc |-> "out of Time range", t |-> 0, usec |-> 0]
           ELSE [exc |-> "none", t |-> obj.t, usec |-> obj.usec]
  ELSE IF obj.kind = "int"
    THEN [exc |-> "none", t |-> obj.t, usec |-> 0]
  ELSE [exc |-> "cannot convert to time", t |-> 0, usec |-> 0]

\* mrb_to_time_t with usec == NULL (line 388): a Float is rounded (246-248),
\* halves away from zero
mrb_to_time_t_round(obj) ==
  LET c == mrb_to_time_t(obj)
  IN  IF /\ obj.kind = "float"
         /\ c.exc = "none"
         /\ (obj.usec > 500000 \/ (obj.usec = 500000 /\ obj.t >= 0))
        THEN [c EXCEPT !.t = obj.t + 1, !.usec = 0]
        ELSE [c EXCEPT !.usec = 0]

\* lines 387-390 on the two conversions: tusec += ...; time_alloc_time(...)
time_alloc_converted(b, c1, c2, timezone) ==
  IF c1.exc # "none" THEN Raise(c1.exc)
  ELSE IF c2.exc # "none" THEN Raise(c2.exc)
  ELSE WithUb(time_alloc_time(b, c1.t, TimeTAdd(c1.usec, c2.t), timezone),
              AddOverflows(c1.usec, c2.t))

\* lines 382-391: time_alloc
time_alloc(b, sec, usec, timezone) ==
  time_alloc_converted(b, mrb_to_time_t(sec), mrb_to_time_t_round(usec), timezone)

\* line 496: #define OUTINT(x) 0, the arm of MRB_INT_MAX <= INT_MAX
OUTINT(x) == FALSE

\* lines 499-506: the range test of time_mktime on ayear - 1900 and the fields
FieldsOutOfRange(ayear, f) ==
  \/ OUTINT(ayear)
  \/ f.month < 1 \/ f.month > 12
  \/ f.day < 1 \/ f.day > 31
  \/ f.hour < 0 \/ f.hour > 24
  \/ (f.hour = 24 /\ (f.min > 0 \/ f.sec > 0))
  \/ f.min < 0 \/ f.min > 59
  \/ f.sec < 0 \/ f.sec > 60

\* nowtime without the shift of the month to 0..11: a faulty variant, which
\* property C9 must tell from the assignment of the source
NowTimeMonthUnshifted(ayear, f) ==
  [tm_year |-> ayear, tm_mon |-> f.month, tm_mday |-> f.day,
   tm_hour |-> f.hour, tm_min |-> f.min, tm_sec |-> f.sec]

\* lines 509-515: struct tm nowtime
NowTime(ayear, f) ==
  [tm_year |-> ayear, tm_mon |-> f.month - 1, tm_mday |-> f.day,
   tm_hour |-> f.hour, tm_min |-> f.min, tm_sec |-> f.sec]

\* lines 517-524: (*mk)(&nowtime)
Mk(b, timezone, tm) ==
  IF timezone = MRB_TIMEZONE_UTC THEN timegm(tm)
  ELSE [r |-> mktime(b, tm), ub |-> FALSE]

\* the retry that raises whatever the second call returns: a faulty variant,
\* which property C11 must tell from the retry of the source
time_mktime_retry_raises(first, second) ==
  [exc |-> "Not a valid time", nowsecs |-> -1, mk |-> 2,
   ub |-> first.ub \/ second.ub]

\* lines 527-531: the second call of mk, on nowtime with tm_sec + 1
time_mktime_retry(first, second) ==
  [exc |-> IF second.r # 0 THEN "Not a valid time" ELSE "none",
   nowsecs |-> -1, mk |-> 2, ub |-> first.ub \/ second.ub]

\* lines 524-532: nowsecs, from the result of the first call of mk
time_mktime_nowsecs(b, timezone, nowtime, first) ==
  IF first.r # -1
    THEN [exc |-> "none", nowsecs |-> first.r, mk |-> 1, ub |-> first.ub]
    ELSE time_mktime_retry(first,
           Mk(b, timezone, [nowtime EXCEPT !.tm_sec = TimeTAdd(@, 1)]))

\* a constructor's result with the calls of mk counted
WithMk(r, mk, ub) == [exc |-> r.exc, tm |-> r.tm, ub |-> r.ub \/ ub, mk |-> mk]

\* line 534 on nowsecs
time_mktime_alloc(b, usec, timezone, s) ==
  IF s.exc # "none" THEN WithMk(Raise(s.exc), s.mk, s.ub)
  ELSE WithMk(time_alloc_time(b, s.nowsecs, usec, timezone), s.mk, s.ub)

\* lines 499-534 on ayear after `ayear -= 1900` (line 499)
time_mktime_year(b, ayear, f, timezone) ==
  IF FieldsOutOfRange(ayear, f)
    THEN WithMk(Raise("argument out of range"), 0, FALSE)
  ELSE time_mktime_alloc(b, f.usec, timezone,
         time_mktime_nowsecs(b, timezone, NowTime(ayear, f),
                             Mk(b, timezone, NowTime(ayear, f))))

\* lines 485-535: time_mktime.  mk counts the calls of the forward transform.
time_mktime(b, f, timezone) ==
  WithUb(time_mktime_year(b, TimeTSub(f.year, 1900), f, timezone),
         SubOverflows(f.year, 1900))

\* lines 426-448: the clock of current_mrb_time.  clk is the reading of the
\* system clock; the "libc" build defines NO_GETTIMEOFDAY (426-440), the
\* "win32" build reads gettimeofday (441-448).
Clock(b, clk, ls, lu) ==
  IF b = "libc"
    THEN IF clk.sec # ls
           THEN [sec |-> clk.sec, usec |-> 0, last_sec |-> clk.sec,
                 last_usec |-> 0, ub |-> FALSE]
           ELSE [sec |-> clk.sec, usec |-> TimeTAdd(lu, 1), last_sec |-> ls,
                 last_usec |-> TimeTAdd(lu, 1), ub |-> AddOverflows(lu, 1)]
    ELSE [sec |-> clk.sec, usec |-> clk.usec, last_sec |-> ls,
          last_usec |-> lu, ub |-> FALSE]

\* lines 450-456 on the clock's sec and usec: no carry is applied
current_mrb_time_at(b, c) ==
  Allocated(time_update_datetime(b, MrbTime(c.sec, c.usec, MRB_TIMEZONE_LOCAL, ZeroTm)),
            c.ub)
    @@ [last_sec |-> c.last_sec, last_usec |-> c.last_usec]

\* lines 405-457: current_mrb_time
current_mrb_time(b, clk, ls, lu) == current_mrb_time_at(b, Clock(b, clk, ls, lu))

\* PlusOverflows with both comparisons off by one: a faulty variant of the
\* test, which property C5 must tell from the test of the source
PlusOverflowsOffByOne(tmsec, sec) ==
  IF sec >= 0 THEN tmsec >= MRB_TIME_MAX - sec
              ELSE tmsec <= MRB_TIME_MIN - sec

\* lines 635-644: the overflow test of time_plus
PlusOverflows(tmsec, sec) ==
  IF sec >= 0 THEN tmsec > MRB_TIME_MAX - sec
              ELSE tmsec < MRB_TIME_MIN - sec

\* lines 679-688: the overflow test of time_minus
MinusOverflows(tmsec, sec) ==
  IF sec >= 0 THEN tmsec < MRB_TIME_MIN + sec
              ELSE tmsec > MRB_TIME_MAX + sec

\* lines 621-648: time_plus on the struct tm of an initialized receiver
time_plus(b, tm, o) ==
  LET c == mrb_to_time_t(o)
  IN  IF c.exc # "none" THEN Raise(c.exc)
      ELSE IF PlusOverflows(tm.sec, c.t)
        THEN Raise("time_t overflow in Time addition")
      ELSE WithUb(time_alloc_time(b, tm.sec + c.t, TimeTAdd(tm.usec, c.usec), tm.timezone),
                  AddOverflows(tm.usec, c.usec))

\* lines 671-692: time_minus with a numeric argument
time_minus(b, tm, o) ==
  LET c == mrb_to_time_t(o)
  IN  IF c.exc # "none" THEN Raise(c.exc)
      ELSE IF MinusOverflows(tm.sec, c.t)
        THEN Raise("time_t overflow in Time subtraction")
      ELSE WithUb(time_alloc_time(b, tm.sec - c.t, TimeTSub(tm.usec, c.usec), tm.timezone),
                  SubOverflows(tm.usec, c.usec))

\* the copy that keeps the zone of the receiver: a faulty variant, which
\* property C14 must tell from the source
time_get_keepzone(b, tm, timezone) ==
  Allocated(time_update_datetime(b, tm), FALSE)

\* lines 817-822 and 832-837: the copy of getutc / getlocal in zone `timezone`
time_get(b, tm, timezone) ==
  Allocated(time_update_datetime(b, [tm EXCEPT !.timezone = timezone]), FALSE)

\* time_get_ptr without the test of the pointer, the method going on with a
\* zeroed struct: a faulty variant, which property C16 must tell from the
\* source
UninitializedUnchecked ==
  [exc |-> "none", tm |-> MrbTime(0, 0, MRB_TIMEZONE_UTC, ZeroTm), ub |-> FALSE]

\* lines 564-574: the raise of time_get_ptr
Uninitialized == Raise("uninitialized time")

-----------------------------------------------------------------------------
(* Readers and observers (pure parts) *)

\* lines 719-726
time_year(tm) == tm.datetime.tm_year + 1900

\* lines 942-949
time_mon(tm) == tm.datetime.tm_mon + 1

\* lines 789-796 (day) and 920-927 (mday)
time_mday(tm) == tm.datetime.tm_mday

\* lines 843-850
time_hour(tm) == tm.datetime.tm_hour

\* lines 931-938
time_min(tm) == tm.datetime.tm_min

\* lines 953-960
time_sec(tm) == tm.datetime.tm_sec

\* lines 988-995
time_usec(tm) == tm.usec

\* lines 697-704
time_wday(tm) == tm.datetime.tm_wday

\* lines 708-715
time_yday(tm) == tm.datetime.tm_yday + 1

\* lines 977-984: time_value_from_time_t of sec, an Integer since every
\* time_t fits mrb_int here
time_to_i(tm) == tm.sec

\* lines 1012-1019: 1 for true, 0 for false
time_utc_p(tm) == IF tm.timezone = MRB_TIMEZONE_UTC THEN 1 ELSE 0

\* lines 728-742: strftime's %z of the local zone, hours and minutes east
time_zonename(tm) == <<"+", UTC_OFFSET \div 3600, (UTC_OFFSET % 3600) \div 60>>

\* lines 1021-1038: "%Y-%m-%d %H:%M:%S " of the cached calendar, then "UTC"
\* or the zone; the string is represented by the numbers it prints
time_to_s(tm) ==
  <<tm.datetime.tm_year + 1900, tm.datetime.tm_mon + 1, tm.datetime.tm_mday,
    tm.datetime.tm_hour, tm.datetime.tm_min, tm.datetime.tm_sec>>
    \o (IF tm.timezone = MRB_TIMEZONE_UTC THEN <<"UTC">> ELSE time_zonename(tm))

\* the methods that read one field of the receiver
Readers ==
  {"year", "mon", "mday", "hour", "min", "sec", "usec", "wday", "yday",
   "to_i", "utc?"}

\* the Integer (or boolean) the reader m returns
Read(m, tm) ==
  CASE m = "year" -> time_year(tm)
    [] m = "mon"  -> time_mon(tm)
    [] m = "mday" -> time_mday(tm)
    [] m = "hour" -> time_hour(tm)
    [] m = "min"  -> time_min(tm)
    [] m = "sec"  -> time_sec(tm)
    [] m = "usec" -> time_usec(tm)
    [] m = "wday" -> time_wday(tm)
    [] m = "yday" -> time_yday(tm)
    [] m = "to_i" -> time_to_i(tm)
    [] m = "utc?" -> time_utc_p(tm)

\* lines 657-663: Time - Time, the Float (mrb_float)(tm->sec - tm2->sec) +
\* (mrb_float)(tm->usec - tm2->usec) / 1.0e6 as [val, frac]; both
\* differences are taken in time_t
time_diff(tm, tm2) ==
  [val  |-> TimeTSub(tm.sec, tm2.sec),
   frac |-> TimeTSub(tm.usec, tm2.usec),
   ub   |-> SubOverflows(tm.sec, tm2.sec) \/ SubOverflows(tm.usec, tm2.usec)]

\* time_eq that also compares the zones: a faulty variant, which property C6
\* must tell from the comparison of the source
time_eq_zone(tm1, tm2) ==
  /\ tm1.used /\ tm2.used /\ tm1.sec = tm2.sec /\ tm1.usec = tm2.usec
  /\ tm1.timezone = tm2.timezone

\* lines 576-588: time_eq on the structs of self and other (FreeCell: NULL)
time_eq(tm1, tm2) ==
  tm1.used /\ tm2.used /\ tm1.sec = tm2.sec /\ tm1.usec = tm2.usec

\* time_cmp that stops after the seconds: a faulty variant, which property C7
\* must tell from the comparison of the source
time_cmp_sec(tm1, tm2) ==
  IF tm1.sec > tm2.sec THEN 1
  ELSE IF tm1.sec < tm2.sec THEN -1
  ELSE 0

\* lines 590-613: time_cmp on two initialized structs
time_cmp(tm1, tm2) ==
  IF tm1.sec > tm2.sec THEN 1
  ELSE IF tm1.sec < tm2.sec THEN -1
  ELSE IF tm1.usec > tm2.usec THEN 1
  ELSE IF tm1.usec < tm2.usec THEN -1
  ELSE 0

\* mrb_byte_hash / mrb_byte_hash_step (mruby core, an FNV-1a hash): every
\* step maps the running hash one-to-one for a given byte, so two inputs of
\* one length that differ in their last field have different hashes.  The
\* hash is represented by the sequence of fields it was fed.
mrb_byte_hash(fields) == fields

\* lines 1040-1048: time_hash feeds sec, usec and timezone, in this order
time_hash(tm) == mrb_byte_hash(<<tm.sec, tm.usec, tm.timezone>>)

-----------------------------------------------------------------------------
(* Inputs *)

\* readings of the system clock (time(NULL) / gettimeofday)
ClockReadings ==
  {[sec |-> 1000000000, usec |-> 999999],
   [sec |-> 1000000001, usec |-> 5]}

\* first arguments of Time.at
AtSecs ==
  {IntArg(MRB_TIME_MIN), IntArg(0), IntArg(MRB_TIME_MAX),
   FloatArg(0, 500000), FloatArg(MRB_TIME_MAX - 1, 0)}

\* second arguments of Time.at
AtUsecs ==
  {IntArg(-1000001), IntArg(-1), IntArg(0), IntArg(999999), IntArg(1000000),
   FloatArg(0, 500000)}

\* durations given to + and -: 1, -1, 0.5 and -0.5
Durations ==
  {IntArg(1), IntArg(-1), FloatArg(0, 500000), FloatArg(-1, 500000)}

Fields(y, mo, d, h, mi, s, us) ==
  [year |-> y, month |-> mo, day |-> d, hour |-> h, min |-> mi, sec |-> s, usec |-> us]

\* field tuples that pass the range test of time_mktime
ValidFields ==
  {Fields(1970, 1, 1, 0, 0, 0, 0),
   Fields(1969, 12, 31, 23, 59, 59, 0),
   Fields(1970, 1, 1, 0, 59, 59, 0),
   Fields(2001, 9, 9, 1, 46, 40, 500000),
   Fields(2000, 2, 29, 12, 30, 30, 0),
   Fields(2001, 2, 31, 0, 0, 0, 0),
   Fields(2000, 12, 31, 24, 0, 0, 0),
   Fields(2000, 6, 30, 23, 59, 60, 0),
   Fields(2039, 1, 1, 0, 0, 0, 0),
   Fields(MRB_INT_MIN, 1, 1, 0, 0, 0, 0)}

\* field tuples with one field out of range
InvalidFields ==
  {Fields(2000, 0, 1, 0, 0, 0, 0),
   Fields(2000, 13, 1, 0, 0, 0, 0),
   Fields(2000, 1, 0, 0, 0, 0, 0),
   Fields(2000, 1, 32, 0, 0, 0, 0),
   Fields(2000, 1, 1, -1, 0, 0, 0),
   Fields(2000, 1, 1, 25, 0, 0, 0),
   Fields(2000, 1, 1, 24, 1, 0, 0),
   Fields(2000, 1, 1, 24, 0, 1, 0),
   Fields(2000, 1, 1, 0, -1, 0, 0),
   Fields(2000, 1, 1, 0, 60, 0, 0),
   Fields(2000, 1, 1, 0, 0, -1, 0),
   Fields(2000, 1, 1, 0, 0, 61, 0)}

\* arguments of Time.gm / Time.local
FieldInputs == ValidFields \cup InvalidFields

\* arguments of Time.new / initialize
InitFieldInputs ==
  {Fields(2001, 9, 9, 1, 46, 40, 500000),
   Fields(1969, 12, 31, 23, 59, 59, 0),
   Fields(2000, 13, 1, 0, 0, 0, 0)}

-----------------------------------------------------------------------------
(* The record of the last call *)

NoArg == [kind |-> "none", t |-> 0, usec |-> 0]
NoFields == Fields(0, 0, 0, 0, 0, 0, 0)

\* op: the method; self, other: receiver and argument objects (0: none);
\* out: the object returned (0: none); exc: the error raised ("none": the call
\* returned, "abort": the process was aborted); a, b: the structs of self and
\* other when the call began; arg, arg2, fields: the arguments; mk: calls of
\* the forward calendar transform; val: an integer result, or the whole
\* seconds of a Float result; frac: the microseconds of a Float result (the
\* Float is val + frac / 1.0e6); nil: the result is nil; hash: the result of
\* hash; str: the result of to_s
NoRet ==
  [op |-> "none", self |-> 0, other |-> 0, out |-> 0, exc |-> "none",
   a |-> FreeCell, b |-> FreeCell, arg |-> NoArg, arg2 |-> NoArg,
   fields |-> NoFields, mk |-> 0, val |-> 0, frac |-> 0, nil |-> FALSE,
   hash |-> <<>>, str |-> <<>>]

-----------------------------------------------------------------------------
(* The interpreter as mrb_debug_eval sees it: the fields of mrb_state it   *)
(* reads and writes, its own locals and its position (pc).  The fields     *)
(* entry, checked and evaluated record what happened in the call and are   *)
(* read by no action.                                                      *)

\* values of mrb->code_fetch_hook: no hook, or one of two functions
Hooks == {NULL, 1, 2}

\* the exception object the parser leaves in mrb->exc
SyntaxErrorObj == 3

\* the exception object of a raise that leaves mrb_debug_eval
RaisedObj == 2

\* what an evaluation, when it returns, may return: an object that is not an
\* exception, or an exception object (the e of "rescue => e")
EvalResults == {[obj |-> 1, is_exc |-> FALSE], [obj |-> 2, is_exc |-> TRUE]}

\* v before its assignment
NoValue == [obj |-> NULL, is_exc |-> FALSE]

\* the interpreter outside mrb_debug_eval, with hook h installed
MrbIdle(h) ==
  [pc              |-> "idle",
   code_fetch_hook |-> h,
   exc             |-> NULL,
   tmp             |-> NULL,
   v               |-> NoValue,
   s               |-> NULL,
   direct_eval     |-> FALSE,
   exc_arg         |-> FALSE,
   exc_out         |-> "unset",
   entry           |-> NULL,
   checked         |-> NULL,
   evaluated       |-> FALSE]

-----------------------------------------------------------------------------
(* Initial state: no Time object is initialized.  In the "libc" build the  *)
(* process may already have called Time.now a million times within second  *)
(* 1000000000; that run of calls is not replayed, its end state (last_sec  *)
(* = 1000000000, last_usec = 999999) is a second initial state.            *)

Init ==
  /\ build \in {"libc", "win32"}
  /\ proc = "running"
  /\ heap = [a \in Addrs |-> FreeCell]
  /\ data = [o \in Objs |-> NULL]
  /\ \/ last_sec = 0 /\ last_usec = 0
     \/ build = "libc" /\ last_sec = 1000000000 /\ last_usec = 999999
  /\ ret = NoRet
  /\ steps = 0
  /\ mrb = MrbIdle(NULL)

-----------------------------------------------------------------------------
(* Actions: one per method of the class *)

\* one more call of a running process; no call changes the build
Step ==
  /\ proc = "running"
  /\ steps < MaxSteps
  /\ steps' = steps + 1
  /\ UNCHANGED <<build, mrb>>

\* what a computation does that overflowed a signed integer (ub = TRUE)
Outcomes(ub) == IF ub THEN {"wrap", "trap"} ELSE {"wrap"}

\* the process is aborted in the middle of the call recorded by rec
Trapped(rec) ==
  /\ proc' = "aborted"
  /\ ret' = [rec EXCEPT !.exc = "abort"]

\* The call returns the new object tm, which is assigned to variable j; the
\* object j held before is collected (time_type's mrb_free, line 200).
Bind(j, tm) ==
  /\ heap' = [c \in Addrs |-> IF c = Malloc(heap) THEN tm
                              ELSE IF c = data[j] THEN FreeCell
                              ELSE heap[c]]
  /\ data' = [data EXCEPT ![j] = Malloc(heap)]

\* the call recorded by rec ends: it returns the object built (r.exc =
\* "none") into variable j, or raises r.exc; what the raising call allocated
\* and did not free stays in the heap, wrapped by no object
Returned(j, r, rec) ==
  /\ proc' = proc
  /\ IF r.exc = "none" THEN Bind(j, r.tm)
     ELSE /\ heap' = [heap EXCEPT ![Malloc(heap)] = r.tm]
          /\ data' = data
  /\ ret' = [rec EXCEPT !.exc = r.exc, !.out = IF r.exc = "none" THEN j ELSE 0]

\* a method that builds a new object
Construct(j, r, rec) ==
  /\ Step
  /\ \E o \in Outcomes(r.ub) :
       IF o = "trap" THEN Trapped(rec) /\ UNCHANGED <<heap, data>>
       ELSE Returned(j, r, rec)

\* lines 460-464: time_now, on the result r of current_mrb_time
time_now(j, r) ==
  /\ Construct(j, r, [NoRet EXCEPT !.op = "now"])
  /\ last_sec' = r.last_sec
  /\ last_usec' = r.last_usec

\* Time.now
TimeNow(j) ==
  \E clk \in ClockReadings :
    time_now(j, current_mrb_time(build, clk, last_sec, last_usec))

\* lines 474-483: Time.at(sec, usec = 0)
TimeAt(j) ==
  \E s \in AtSecs, u \in AtUsecs :
    /\ Construct(j, time_alloc(build, s, u, MRB_TIMEZONE_LOCAL),
                 [NoRet EXCEPT !.op = "at", !.arg = s, !.arg2 = u])
    /\ UNCHANGED <<last_sec, last_usec>>

\* time_gm / time_local on the result r of time_mktime
time_mk(j, op, f, r) ==
  /\ Construct(j, r, [NoRet EXCEPT !.op = op, !.fields = f, !.mk = r.mk])
  /\ UNCHANGED <<last_sec, last_usec>>

\* lines 539-548: Time.gm
TimeGm(j) ==
  \E f \in FieldInputs :
    time_mk(j, "gm", f, time_mktime(build, f, MRB_TIMEZONE_UTC))

\* lines 553-562: Time.local
TimeLocal(j) ==
  \E f \in FieldInputs :
    time_mk(j, "local", f, time_mktime(build, f, MRB_TIMEZONE_LOCAL))

\* the heap after mrb_free(mrb, tm) of lines 865-867
Freed(i) == [c \in Addrs |-> IF c = data[i] THEN FreeCell ELSE heap[c]]

\* lines 854-878: time_init (Time.new, or initialize called again on object
\* i), on the result r of current_mrb_time or time_mktime.  The old struct is
\* freed and the data pointer cleared (865-868) before the new one is built;
\* a raise leaves the pointer NULL.
time_init(i, r, rec) ==
  /\ Step
  /\ \E o \in Outcomes(r.ub) :
       IF o = "trap"
         THEN /\ Trapped(rec)
              /\ heap' = Freed(i)
              /\ data' = [data EXCEPT ![i] = NULL]
       ELSE IF r.exc = "none"
         THEN /\ proc' = proc
              /\ heap' = [Freed(i) EXCEPT ![Malloc(Freed(i))] = r.tm]
              /\ data' = [data EXCEPT ![i] = Malloc(Freed(i))]
              /\ ret' = [rec EXCEPT !.out = i]
       ELSE /\ proc' = proc
            /\ heap' = [Freed(i) EXCEPT ![Malloc(Freed(i))] = r.tm]
            /\ data' = [data EXCEPT ![i] = NULL]
            /\ ret' = [rec EXCEPT !.exc = r.exc]

\* time_init with n == 0 (lines 870-872)
time_init_now(i, r) ==
  /\ time_init(i, r, [NoRet EXCEPT !.op = "initialize", !.self = i,
                                   !.a = Deref(heap, data, i)])
  /\ last_sec' = r.last_sec
  /\ last_usec' = r.last_usec

TimeInitNow(i) ==
  \E clk \in ClockReadings :
    time_init_now(i, current_mrb_time(build, clk, last_sec, last_usec))

\* time_init with n > 0 (lines 873-875)
time_init_fields(i, f, r) ==
  /\ time_init(i, r, [NoRet EXCEPT !.op = "initialize", !.self = i,
                                   !.a = Deref(heap, data, i),
                                   !.fields = f, !.mk = r.mk])
  /\ UNCHANGED <<last_sec, last_usec>>

TimeInitFields(i) ==
  \E f \in InitFieldInputs :
    time_init_fields(i, f, time_mktime(build, f, MRB_TIMEZONE_LOCAL))

\* a method that builds a new object from receiver i and argument d
Arith(i, j, op, d, r) ==
  /\ Construct(j, r, [NoRet EXCEPT !.op = op, !.self = i, !.arg = d,
                                   !.a = Deref(heap, data, i)])
  /\ UNCHANGED <<last_sec, last_usec>>

\* lines 621-648: Time#+
TimePlus(i, j) ==
  \E d \in Durations :
    Arith(i, j, "plus", d,
          IF data[i] = NULL THEN Uninitialized
          ELSE time_plus(build, heap[data[i]], d))

\* lines 650-693: Time#- with a numeric argument
TimeMinus(i, j) ==
  \E d \in Durations :
    Arith(i, j, "minus", d,
          IF data[i] = NULL THEN Uninitialized
          ELSE time_minus(build, heap[data[i]], d))

\* lines 813-824: Time#getutc
TimeGetutc(i, j) ==
  Arith(i, j, "getutc", NoArg,
        IF data[i] = NULL THEN Uninitialized
        ELSE time_get(build, heap[data[i]], MRB_TIMEZONE_UTC))

\* lines 828-839: Time#getlocal
TimeGetlocal(i, j) ==
  Arith(i, j, "getlocal", NoArg,
        IF data[i] = NULL THEN Uninitialized
        ELSE time_get(build, heap[data[i]], MRB_TIMEZONE_LOCAL))

\* initialize_copy that copies the pointer, not the struct: a faulty variant,
\* which property C15 must tell from the source
TimeInitCopyShared(i, k) ==
  /\ Step
  /\ proc' = proc
  /\ heap' = heap
  /\ data' = IF i = k \/ data[k] = NULL THEN data
             ELSE [data EXCEPT ![i] = data[k]]
  /\ ret' = [NoRet EXCEPT !.op = "initialize_copy", !.self = i, !.other = k,
                          !.a = Deref(heap, data, i), !.b = Deref(heap, data, k),
                          !.exc = IF i # k /\ data[k] = NULL
                                    THEN "uninitialized time" ELSE "none",
                          !.out = IF i # k /\ data[k] = NULL THEN 0 ELSE i]
  /\ UNCHANGED <<last_sec, last_usec>>

\* lines 882-903: initialize_copy; i is the copy, k the source
TimeInitCopy(i, k) ==
  /\ Step
  /\ proc' = proc
  /\ IF i = k \/ data[k] = NULL THEN UNCHANGED <<heap, data>>
     ELSE LET t1 == IF data[i] = NULL THEN Malloc(heap) ELSE data[i]
          IN  /\ heap' = [heap EXCEPT ![t1] = heap[data[k]]]
              /\ data' = [data EXCEPT ![i] = t1]
  /\ ret' = [NoRet EXCEPT !.op = "initialize_copy", !.self = i, !.other = k,
                          !.a = Deref(heap, data, i), !.b = Deref(heap, data, k),
                          !.exc = IF i # k /\ data[k] = NULL
                                    THEN "uninitialized time" ELSE "none",
                          !.out = IF i # k /\ data[k] = NULL THEN 0 ELSE i]
  /\ UNCHANGED <<last_sec, last_usec>>

\* a switch that also moves sec by the offset of the zone: a faulty variant,
\* which property C13 must tell from the source
time_switch_shifted(i, op, u) ==
  /\ Step
  /\ proc' = proc
  /\ IF data[i] = NULL THEN UNCHANGED heap
     ELSE heap' = [heap EXCEPT ![data[i]] =
                     [u.tm EXCEPT !.sec = TimeTSub(@, UTC_OFFSET)]]
  /\ ret' = [NoRet EXCEPT !.op = op, !.self = i,
                          !.a = Deref(heap, data, i),
                          !.exc = IF data[i] = NULL THEN "uninitialized time"
                                  ELSE IF u.ok THEN "none"
                                  ELSE "out of Time range",
                          !.out = IF data[i] # NULL /\ u.ok THEN i ELSE 0]
  /\ UNCHANGED <<data, last_sec, last_usec>>

\* lines 907-916 (localtime) and 999-1008 (utc) on the result u of
\* time_update_datetime(mrb, tm, FALSE), called after the zone was assigned:
\* a failed conversion raises and leaves the struct with the new zone
time_switch(i, op, u) ==
  /\ Step
  /\ proc' = proc
  /\ IF data[i] = NULL THEN UNCHANGED heap
     ELSE heap' = [heap EXCEPT ![data[i]] = u.tm]
  /\ ret' = [NoRet EXCEPT !.op = op, !.self = i,
                          !.a = Deref(heap, data, i),
                          !.exc = IF data[i] = NULL THEN "uninitialized time"
                                  ELSE IF u.ok THEN "none"
                                  ELSE "out of Time range",
                          !.out = IF data[i] # NULL /\ u.ok THEN i ELSE 0]
  /\ UNCHANGED <<data, last_sec, last_usec>>

\* lines 999-1008: Time#utc
TimeUtc(i) ==
  time_switch(i, "utc",
    time_update_datetime(build, [Deref(heap, data, i) EXCEPT !.timezone = MRB_TIMEZONE_UTC]))

\* lines 907-916: Time#localtime
TimeLocaltime(i) ==
  time_switch(i, "localtime",
    time_update_datetime(build, [Deref(heap, data, i) EXCEPT !.timezone = MRB_TIMEZONE_LOCAL]))

\* a method that changes no object and returns what r records
Observe(r) ==
  /\ Step
  /\ proc' = proc
  /\ ret' = r
  /\ UNCHANGED <<heap, data, last_sec, last_usec>>

\* lines 576-588: Time#== and Time#eql?
TimeEq(i, k) ==
  Observe([NoRet EXCEPT !.op = "eq", !.self = i, !.other = k,
                        !.a = Deref(heap, data, i), !.b = Deref(heap, data, k),
                        !.val = IF time_eq(Deref(heap, data, i), Deref(heap, data, k))
                                  THEN 1 ELSE 0])

\* lines 590-613: Time#<=>; nil when an operand is not initialized (598)
TimeCmp(i, k) ==
  Observe([NoRet EXCEPT !.op = "cmp", !.self = i, !.other = k,
                        !.a = Deref(heap, data, i), !.b = Deref(heap, data, k),
                        !.nil = data[i] = NULL \/ data[k] = NULL,
                        !.val = IF data[i] = NULL \/ data[k] = NULL THEN 0
                                ELSE time_cmp(heap[data[i]], heap[data[k]])])

\* lines 1040-1048: Time#hash
TimeHash(i) ==
  Observe([NoRet EXCEPT !.op = "hash", !.self = i, !.a = Deref(heap, data, i),
                        !.exc = IF data[i] = NULL THEN "uninitialized time" ELSE "none",
                        !.hash = IF data[i] = NULL THEN <<>>
                                 ELSE time_hash(heap[data[i]])])

\* lines 650-669: Time#- with a Time argument k.  An argument that is not
\* initialized is no Time data (tm2 == NULL): the numeric arm converts it and
\* mrb_to_time_t raises (line 291)
TimeDiff(i, k) ==
  /\ Step
  /\ \E o \in Outcomes(data[i] # NULL /\ data[k] # NULL
                        /\ time_diff(heap[data[i]], heap[data[k]]).ub) :
       LET rec == [NoRet EXCEPT !.op = "diff", !.self = i, !.other = k,
                                !.a = Deref(heap, data, i),
                                !.b = Deref(heap, data, k)]
       IN  IF o = "trap" THEN Trapped(rec)
           ELSE /\ proc' = proc
                /\ ret' = IF data[i] = NULL
                            THEN [rec EXCEPT !.exc = "uninitialized time"]
                          ELSE IF data[k] = NULL
                            THEN [rec EXCEPT !.exc = "cannot convert to time"]
                          ELSE [rec EXCEPT
                                  !.val = time_diff(heap[data[i]], heap[data[k]]).val,
                                  !.frac = time_diff(heap[data[i]], heap[data[k]]).frac]
  /\ UNCHANGED <<heap, data, last_sec, last_usec>>

\* the field readers, to_i, usec and utc? (time_get_ptr, then one field)
TimeReader(i) ==
  \E m \in Readers :
    Observe([NoRet EXCEPT !.op = m, !.self = i, !.a = Deref(heap, data, i),
                          !.exc = IF data[i] = NULL THEN "uninitialized time" ELSE "none",
                          !.val = IF data[i] = NULL THEN 0 ELSE Read(m, heap[data[i]])])

\* lines 1021-1038: Time#to_s (and inspect)
TimeToS(i) ==
  Observe([NoRet EXCEPT !.op = "to_s", !.self = i, !.a = Deref(heap, data, i),
                        !.exc = IF data[i] = NULL THEN "uninitialized time" ELSE "none",
                        !.str = IF data[i] = NULL THEN <<>>
                                ELSE time_to_s(heap[data[i]])])

Next ==
  \/ \E j \in Objs : TimeNow(j)
  \/ \E j \in Objs : TimeAt(j)
  \/ \E j \in Objs : TimeGm(j)
  \/ \E j \in Objs : TimeLocal(j)
  \/ \E i \in Objs : TimeInitNow(i)
  \/ \E i \in Objs : TimeInitFields(i)
  \/ \E i, j \in Objs : TimePlus(i, j)
  \/ \E i, j \in Objs : TimeMinus(i, j)
  \/ \E i, j \in Objs : TimeGetutc(i, j)
  \/ \E i, j \in Objs : TimeGetlocal(i, j)
  \/ \E i, k \in Objs : TimeInitCopy(i, k)
  \/ \E i \in Objs : TimeUtc(i)
  \/ \E i \in Objs : TimeLocaltime(i)
  \/ \E i, k \in Objs : TimeEq(i, k)
  \/ \E i, k \in Objs : TimeCmp(i, k)
  \/ \E i \in Objs : TimeHash(i)
  \/ \E i, k \in Objs : TimeDiff(i, k)
  \/ \E i \in Objs : TimeReader(i)
  \/ \E i \in Objs : TimeToS(i)

Spec == Init /\ [][Next]_vars

-----------------------------------------------------------------------------
(* Comparison and hashing of given values.  Three objects hold values that  *)
(* Time.at and utc / localtime build; the calls that built them are not     *)
(* replayed.  The observers are then applied to every pair of them.         *)

\* instants (sec, usec) of the sample values
SampleInstants == {<<0, 0>>, <<0, 1>>, <<1, 0>>}

\* the structs time_alloc_time builds for the sample instants in both zones
SampleTimes(b) ==
  {time_alloc_time(b, i[1], i[2], z).tm :
     i \in SampleInstants, z \in {MRB_TIMEZONE_UTC, MRB_TIMEZONE_LOCAL}}

InitObserve ==
  /\ build \in {"libc", "win32"}
  /\ proc = "running"
  /\ \E v1, v2, v3 \in SampleTimes(build) :
       heap = [a \in Addrs |-> IF a = 1 THEN v1
                               ELSE IF a = 2 THEN v2
                               ELSE IF a = 3 THEN v3
                               ELSE FreeCell]
  /\ data = [o \in Objs |-> o]
  /\ last_sec = 0
  /\ last_usec = 0
  /\ ret = NoRet
  /\ steps = 0
  /\ mrb = MrbIdle(NULL)

NextObserve ==
  \/ \E i, k \in Objs : TimeEq(i, k)
  \/ \E i, k \in Objs : TimeCmp(i, k)
  \/ \E i \in Objs : TimeHash(i)

SpecObserve == InitObserve /\ [][NextObserve]_vars

-----------------------------------------------------------------------------
(* The instance methods on a given value.  Object 1 holds a value that     *)
(* Time.at, Time.gm and utc / localtime build, or the value of a Time.now  *)
(* that came late in second 1000000000; the calls that built it are not    *)
(* replayed.  Objects 2 and 3 were allocated and never initialized.        *)

\* (sec, usec, zone) of the values
ValueSamples ==
  {<<0, 0, MRB_TIMEZONE_UTC>>,
   <<0, 0, MRB_TIMEZONE_LOCAL>>,
   <<-1, 0, MRB_TIMEZONE_UTC>>,
   <<1000000000, 500000, MRB_TIMEZONE_UTC>>,
   <<MRB_TIME_MAX, 999999, MRB_TIMEZONE_LOCAL>>,
   <<MRB_TIME_MIN, 0, MRB_TIMEZONE_LOCAL>>}

\* the structs time_alloc_time builds for them in build b
Values(b) ==
  {r.tm : r \in {x \in {time_alloc_time(b, v[1], v[2], v[3]) : v \in ValueSamples} :
                   x.exc = "none"}}

\* Time.now at clock reading 1000000000 s, 999999 us, when the statics of the
\* fallback clock are last_sec = 1000000000, last_usec = 999999
LateNow(b) ==
  current_mrb_time(b, [sec |-> 1000000000, usec |-> 999999], 1000000000, 999999)

\* the heap that holds v alone
HeapOf(v) == [a \in Addrs |-> IF a = 1 THEN v ELSE FreeCell]

InitValues ==
  /\ build \in {"libc", "win32"}
  /\ proc = "running"
  /\ \/ /\ \E v \in Values(build) : heap = HeapOf(v)
        /\ last_sec = 0
        /\ last_usec = 0
     \/ /\ heap = HeapOf(LateNow(build).tm)
        /\ last_sec = LateNow(build).last_sec
        /\ last_usec = LateNow(build).last_usec
  /\ data = [o \in Objs |-> IF o = 1 THEN 1 ELSE NULL]
  /\ ret = NoRet
  /\ steps = 0
  /\ mrb = MrbIdle(NULL)

NextValues ==
  \/ \E i \in Objs : TimeInitNow(i)
  \/ \E i \in Objs : TimeInitFields(i)
  \/ \E i, j \in Objs : TimePlus(i, j)
  \/ \E i, j \in Objs : TimeMinus(i, j)
  \/ \E i, j \in Objs : TimeGetutc(i, j)
  \/ \E i, j \in Objs : TimeGetlocal(i, j)
  \/ \E i, k \in Objs : TimeInitCopy(i, k)
  \/ \E i \in Objs : TimeUtc(i)
  \/ \E i \in Objs : TimeLocaltime(i)
  \/ \E i, k \in Objs : TimeEq(i, k)
  \/ \E i, k \in Objs : TimeCmp(i, k)
  \/ \E i \in Objs : TimeHash(i)
  \/ \E i, k \in Objs : TimeDiff(i, k)
  \/ \E i \in Objs : TimeReader(i)
  \/ \E i \in Objs : TimeToS(i)

SpecValues == InitValues /\ [][NextValues]_vars

-----------------------------------------------------------------------------
(* The debugger's evaluator.  mrb_debug_eval is cut at the calls it makes  *)
(* into the interpreter: the parser (mrb_load_nstring_cxt), the method     *)
(* call (mrb_funcall, mrb_funcall_argv) and mrb_inspect.  Each is taken    *)
(* with every result it can have: the parser leaves mrb->exc set or not; a *)
(* call that runs Ruby code returns a value or raises past mrb_debug_eval, *)
(* which then never reaches its remaining lines.                           *)

InitDebug ==
  /\ build \in {"libc", "win32"}
  /\ proc = "running"
  /\ heap = [a \in Addrs |-> FreeCell]
  /\ data = [o \in Objs |-> NULL]
  /\ last_sec = 0
  /\ last_usec = 0
  /\ ret = NoRet
  /\ steps = 0
  /\ \E h \in Hooks : mrb = MrbIdle(h)

\* the debugger's actions leave the Time class alone
TimeUnchanged == UNCHANGED <<build, proc, heap, data, last_sec, last_usec, ret>>

\* apiprint.c lines 34-45: the call, made with any direct_eval and with exc
\* a null pointer or not, and the disabling of the hook
mrb_debug_eval ==
  /\ mrb.pc \in {"idle", "returned"}
  /\ proc = "running"
  /\ steps < MaxSteps
  /\ steps' = steps + 1
  /\ \E direct_eval, exc \in BOOLEAN :
       mrb' = [MrbIdle(NULL) EXCEPT !.pc = "check",
                                    !.tmp = mrb.code_fetch_hook,
                                    !.direct_eval = direct_eval,
                                    !.exc_arg = exc,
                                    !.entry = mrb.code_fetch_hook]
  /\ TimeUnchanged

\* apiprint.c lines 17-32 and 47: the expression is parsed with no_exec and
\* capture_errors; a syntax error is left in mrb->exc
mrdb_check_syntax ==
  /\ mrb.pc = "check"
  /\ \E e \in {NULL, SyntaxErrorObj} :
       mrb' = [mrb EXCEPT !.pc = "branch", !.exc = e, !.checked = e]
  /\ UNCHANGED steps
  /\ TimeUnchanged

\* apiprint.c lines 48-51: v = mrb_obj_value(mrb->exc); mrb->exc = 0
eval_exc ==
  /\ mrb.pc = "branch"
  /\ mrb.exc # NULL
  /\ mrb' = [mrb EXCEPT !.pc = "finish",
                        !.v = [obj |-> mrb.exc, is_exc |-> TRUE],
                        !.exc = NULL]
  /\ UNCHANGED steps
  /\ TimeUnchanged

\* a call that runs the expression: it returns one of EvalResults into v, or
\* it raises
Called ==
  /\ mrb.pc = "branch"
  /\ \/ \E r \in EvalResults :
          mrb' = [mrb EXCEPT !.pc = "finish", !.v = r, !.evaluated = TRUE]
     \/ mrb' = [mrb EXCEPT !.pc = "unwound", !.exc = RaisedObj,
                           !.evaluated = TRUE]
  /\ UNCHANGED steps
  /\ TimeUnchanged

\* apiprint.c lines 52-56: v = mrb_funcall(mrb, recv, expr, 0)
eval_direct ==
  /\ mrb.exc = NULL
  /\ mrb.direct_eval
  /\ Called

\* apiprint.c lines 57-72: instance_eval of "begin expr rescue => e; e end"
eval_instance ==
  /\ mrb.exc = NULL
  /\ ~mrb.direct_eval
  /\ Called

\* apiprint.c lines 74-76: *exc = mrb_obj_is_kind_of(mrb, v, E_EXCEPTION)
ExcOut ==
  IF ~mrb.exc_arg THEN "unset"
  ELSE IF mrb.v.is_exc THEN "true"
  ELSE "false"

\* lines 74-83 without line 81: a faulty variant, which property C18 must
\* tell from the source
eval_return_unrestored ==
  /\ mrb.pc = "finish"
  /\ \/ mrb' = [mrb EXCEPT !.pc = "returned", !.exc_out = ExcOut,
                           !.s = mrb.v.obj]
     \/ mrb' = [mrb EXCEPT !.pc = "unwound", !.exc_out = ExcOut,
                           !.exc = RaisedObj]
  /\ UNCHANGED steps
  /\ TimeUnchanged

\* apiprint.c lines 74-83: *exc is written, s = mrb_inspect(mrb, v), the hook
\* is restored and s is returned; mrb_inspect runs Ruby code and may raise
eval_return ==
  /\ mrb.pc = "finish"
  /\ \/ mrb' = [mrb EXCEPT !.pc = "returned", !.exc_out = ExcOut,
                           !.s = mrb.v.obj,
                           !.code_fetch_hook = mrb.tmp]
     \/ mrb' = [mrb EXCEPT !.pc = "unwound", !.exc_out = ExcOut,
                           !.exc = RaisedObj]
  /\ UNCHANGED steps
  /\ TimeUnchanged

NextDebug ==
  \/ mrb_debug_eval
  \/ mrdb_check_syntax
  \/ eval_exc
  \/ eval_direct
  \/ eval_instance
  \/ eval_return

SpecDebug == InitDebug /\ [][NextDebug]_vars

-----------------------------------------------------------------------------
(* Properties *)

\* the structs of the initialized objects
Live == {heap[data[o]] : o \in {x \in Objs : data[x] # NULL}}

\* the struct of the object the last call returned
Out == heap[data[ret.out]]

\* the last call returned a new or re-initialized object
ReturnedObject == ret.exc = "none" /\ ret.out # 0

\* sec * 1000000 + usec = s * 1000000 + u, computed without leaving 32 bits
\* (for |u - usec| < 2^31)
ExactMicros(s, u, sec, usec) ==
  /\ ~SubOverflows(sec, s)
  /\ ~SubOverflows(u, usec)
  /\ sec - s \in -2147 .. 2147
  /\ (sec - s) * USEC_PER_SEC = u - usec

\* sec = s + t + c, the sum taken in the integers
ExactSum(s, t, c, sec) ==
  /\ ~AddOverflows(s, t)
  /\ ~AddOverflows(s + t, c)
  /\ sec = s + t + c

\* C1: every initialized Time value has 0 <= usec < 1000000, whichever
\* operation produced it.
C1_UsecInRange ==
  \A a \in Addrs : heap[a].used => (0 <= heap[a].usec /\ heap[a].usec < USEC_PER_SEC)

\* C2: Time.at(s, u) with Integers s and u calls time_alloc_time(s, u, tz);
\* when it succeeds the value has sec * 1000000 + usec = s * 1000000 + u.
C2_AllocExact ==
  (/\ ret.op = "at"
   /\ ret.arg.kind = "int"
   /\ ret.arg2.kind = "int"
   /\ ReturnedObject)
    => ExactMicros(ret.arg.t, ret.arg2.t, Out.sec, Out.usec)

\* C3: the cached datetime of every initialized Time value is the calendar
\* projection of its sec in its zone: gmtime of sec when the zone is UTC,
\* localtime of sec when it is LOCAL.
C3_DatetimeConsistent ==
  \A a \in Addrs :
    heap[a].used =>
      heap[a].datetime =
        IF heap[a].timezone = MRB_TIMEZONE_UTC
          THEN BrokenDown(heap[a].sec, 0)
          ELSE BrokenDown(heap[a].sec, UTC_OFFSET)

\* C4: a + d and a - d with a duration d either fail or return a value whose
\* sec is the exact result: a.sec + floor(d) plus the carry of the
\* microseconds (a.sec - floor(d) plus the borrow); sec never wraps around.
C4_NoWrap ==
  /\ (ret.op = "plus" /\ ReturnedObject) =>
       ExactSum(ret.a.sec, ret.arg.t,
                (ret.a.usec + ret.arg.usec) \div USEC_PER_SEC, Out.sec)
  /\ (ret.op = "minus" /\ ReturnedObject) =>
       ExactSum(ret.a.sec, -ret.arg.t,
                (ret.a.usec - ret.arg.usec) \div USEC_PER_SEC, Out.sec)

\* a step that is a call of + or - on an initialized receiver
ArithStep ==
  /\ steps' = steps + 1
  /\ ret'.op \in {"plus", "minus"}
  /\ ret'.a.used

\* the whole-second result of the call the step makes leaves the range of
\* time_t
ArithOutOfRange ==
  IF ret'.op = "plus" THEN AddOverflows(ret'.a.sec, ret'.arg.t)
                      ELSE SubOverflows(ret'.a.sec, ret'.arg.t)

\* the overflow error of the call the step makes
ArithOverflowError ==
  IF ret'.op = "plus" THEN "time_t overflow in Time addition"
                      ELSE "time_t overflow in Time subtraction"

\* C5: time_plus raises the overflow error naming "addition" exactly when
\* tm->sec + d is outside [MRB_TIME_MIN, MRB_TIME_MAX], time_minus the one
\* naming "subtraction" exactly when tm->sec - d is, for both signs of d; the
\* call then returns no object and leaves every object and the heap as they
\* were.
C5_OverflowRaises ==
  [][ArithStep =>
       /\ (ret'.exc = ArithOverflowError) <=> ArithOutOfRange
       /\ ArithOutOfRange => (ret'.out = 0 /\ heap' = heap /\ data' = data)]_vars

\* C5 happens: 1 was added to a value whose sec is MRB_TIME_MAX
C5_Witness ==
  /\ ret.op = "plus"
  /\ ret.a.used
  /\ ret.a.sec = MRB_TIME_MAX
  /\ ret.arg = IntArg(1)
  /\ ret.exc = "time_t overflow in Time addition"
  /\ ret.out = 0

\* C6: for two initialized values, == (eql?) is true if and only if their sec
\* and their usec are equal, whatever their zones and cached calendars are.
C6_EqIffSameInstant ==
  (ret.op = "eq" /\ ret.a.used /\ ret.b.used) =>
    ((ret.val = 1) <=> (ret.a.sec = ret.b.sec /\ ret.a.usec = ret.b.usec))

\* C6 happens: a UTC value and a LOCAL value of one instant compared equal
C6_Witness ==
  /\ ret.op = "eq"
  /\ ret.a.used /\ ret.b.used
  /\ ret.a.timezone # ret.b.timezone
  /\ ret.a.datetime # ret.b.datetime
  /\ ret.val = 1

\* the order of the pairs (sec, usec): -1, 0 or 1
Lexicographic(x, y) ==
  IF x.sec # y.sec THEN (IF x.sec < y.sec THEN -1 ELSE 1)
  ELSE IF x.usec # y.usec THEN (IF x.usec < y.usec THEN -1 ELSE 1)
  ELSE 0

\* C7: on initialized values <=> returns -1, 0 or 1, the lexicographic
\* comparison of (sec, usec); it returns 0 exactly when == is true; swapping
\* the operands negates it; and it is transitive.
C7_TotalOrder ==
  /\ (ret.op = "cmp" /\ ret.a.used /\ ret.b.used) =>
       /\ ~ret.nil
       /\ ret.val \in {-1, 0, 1}
       /\ ret.val = Lexicographic(ret.a, ret.b)
       /\ (ret.val = 0) <=> time_eq(ret.a, ret.b)
  /\ \A x, y \in Live : time_cmp(x, y) = -time_cmp(y, x)
  /\ \A x, y, z \in Live :
       (time_cmp(x, y) <= 0 /\ time_cmp(y, z) <= 0) => time_cmp(x, z) <= 0

\* C7 happens: two values of one second were ordered by their microseconds
C7_Witness ==
  /\ ret.op = "cmp"
  /\ ret.a.used /\ ret.b.used
  /\ ret.a.sec = ret.b.sec
  /\ ret.a.usec < ret.b.usec
  /\ ret.val = -1

\* C8: two initialized values that are eql? have the same hash, whatever
\* their zones and cached calendars are.
C8_EqlSameHash ==
  \A x, y \in Live : time_eq(x, y) => time_hash(x) = time_hash(y)

\* the fields are those of a call of Time.gm, Time.local or initialize with
\* arguments
MktimeCalled ==
  ret.op \in {"gm", "local"} \/ (ret.op = "initialize" /\ ret.fields # NoFields)

\* year, month, day, hour, min and sec of the value read back are the fields
\* given
ReadBack(tm, f) ==
  /\ time_year(tm) = f.year
  /\ time_mon(tm) = f.month
  /\ time_mday(tm) = f.day
  /\ time_hour(tm) = f.hour
  /\ time_min(tm) = f.min
  /\ time_sec(tm) = f.sec

\* the number of days of month m of year y
DaysInMonth(y, m) ==
  IF m = 2 THEN (IF y % 4 = 0 /\ (y % 100 # 0 \/ y % 400 = 0) THEN 29 ELSE 28)
  ELSE IF m \in {4, 6, 9, 11} THEN 30
  ELSE 31

\* the fields name a date and time of day that exist, in a year all of whose
\* instants a 32-bit time_t holds
ProperFields(f) ==
  /\ f.year \in 1902 .. 2037
  /\ f.month \in 1 .. 12
  /\ f.day \in 1 .. DaysInMonth(f.year, f.month)
  /\ f.hour \in 0 .. 23
  /\ f.min \in 0 .. 59
  /\ f.sec \in 0 .. 59

FieldRangeViolated(f) ==
  \/ f.month \notin 1 .. 12
  \/ f.day \notin 1 .. 31
  \/ f.hour \notin 0 .. 24
  \/ (f.hour = 24 /\ (f.min > 0 \/ f.sec > 0))
  \/ f.min \notin 0 .. 59
  \/ f.sec \notin 0 .. 60
  \/ f.year < MRB_INT_MIN + 1900

\* C10: time_mktime raises "argument out of range", builds no value and does
\* not call timegm / mktime whenever a field is outside its range or
\* year - 1900 does not fit an int.
C10_RangeRaises ==
  (MktimeCalled /\ FieldRangeViolated(ret.fields)) =>
    (ret.exc = "argument out of range" /\ ret.mk = 0 /\ ret.out = 0)

\* the fields of the epoch and of the second before it, in UTC
EpochFields == Fields(1970, 1, 1, 0, 0, 0, 0)
EpochMinusOneFields == Fields(1969, 12, 31, 23, 59, 59, 0)

\* the fields of the last call name the second before the epoch in the zone
\* of the call: UTC for Time.gm, the local zone (one hour east) otherwise
NamesEpochMinusOne ==
  IF ret.op = "gm"
    THEN [ret.fields EXCEPT !.usec = 0] = EpochMinusOneFields
    ELSE [ret.fields EXCEPT !.usec = 0] = Fields(1970, 1, 1, 0, 59, 59, 0)

\* C11: Time.gm(1970,1,1,0,0,0,0) yields sec = 0 and
\* Time.gm(1969,12,31,23,59,59,0) yields sec = -1, not an error: when the
\* forward transform returns -1, time_mktime calls it again with tm_sec + 1,
\* takes the input for the second before the epoch exactly when that call
\* returns 0, and raises "Not a valid time" for every other input whose
\* transform returned -1; <=> of the first value with the second is 1.
C11_EpochMinusOne ==
  /\ (ret.op = "gm" /\ ret.fields = EpochFields) =>
       (ReturnedObject /\ Out.sec = 0 /\ Out.usec = 0 /\ ret.mk = 1)
  /\ (ret.op = "gm" /\ ret.fields = EpochMinusOneFields) =>
       (ReturnedObject /\ Out.sec = -1 /\ Out.usec = 0 /\ ret.mk = 2)
  /\ (MktimeCalled /\ ret.mk = 2 /\ ret.exc # "abort") =>
       IF NamesEpochMinusOne
         THEN ret.exc # "Not a valid time" /\ (ReturnedObject => Out.sec = -1)
         ELSE ret.exc = "Not a valid time" /\ ret.out = 0
  /\ \A x, y \in Live : (x.sec = 0 /\ y.sec = -1) => time_cmp(x, y) = 1

\* C11 happens: Time.gm built the second before the epoch after a retry,
\* next to a value of the epoch that is greater
C11_Witness ==
  /\ ret.op = "gm"
  /\ ret.fields = EpochMinusOneFields
  /\ ReturnedObject
  /\ ret.mk = 2
  /\ Out.sec = -1
  /\ \E x \in Live : x.sec = 0 /\ x.usec = 0 /\ time_cmp(x, Out) = 1

\* the last call was a + d with a whole number of seconds d, and its result
\* is held next to a
PlusDone ==
  /\ ret.op = "plus"
  /\ ret.arg.kind = "int"
  /\ ret.exc = "none"
  /\ ret.out \notin {0, ret.self}

\* the struct of the object the call of the step returns
OutNext == heap'[data'[ret'.out]]

\* the Float val + frac / 1.0e6 is the whole number d
FloatIs(val, frac, d) ==
  /\ ~SubOverflows(val, d)
  /\ val - d \in -2 .. 2
  /\ (val - d) * USEC_PER_SEC + frac = 0

\* C12: for every Time a and whole-second duration d for which a + d does
\* not overflow, (a + d) - a equals d and (a + d) - d equals a under ==; the
\* microsecond part of a is carried through unchanged.
C12_PlusMinus ==
  [][/\ (steps' = steps + 1 /\ ret'.op = "plus" /\ ret'.arg.kind = "int"
           /\ ret'.exc = "none" /\ ret'.out # 0)
          => OutNext.usec = ret'.a.usec
     /\ (steps' = steps + 1 /\ PlusDone /\ ret'.op = "diff"
           /\ ret'.self = ret.out /\ ret'.other = ret.self)
          => (ret'.exc = "none" /\ FloatIs(ret'.val, ret'.frac, ret.arg.t))
     /\ (steps' = steps + 1 /\ PlusDone /\ ret'.op = "minus"
           /\ ret'.self = ret.out /\ ret'.arg = ret.arg)
          => /\ ret'.exc = "none"
             /\ ret'.out # 0
             /\ time_eq(OutNext, ret.a)
             /\ OutNext.usec = ret.a.usec]_vars

\* the in-place switches, and the zone each one sets
Switches == {"utc", "localtime"}
ZoneOf(op) == IF op = "utc" THEN MRB_TIMEZONE_UTC ELSE MRB_TIMEZONE_LOCAL

\* the step is a call of utc or localtime on an initialized object
SwitchStep ==
  /\ steps' = steps + 1
  /\ ret'.op \in Switches
  /\ ret'.a.used

\* the struct of the receiver after the step
SelfNext == heap'[data'[ret'.self]]

\* C13: utc on a value in UTC mode leaves sec, usec and timezone unchanged
\* and yields the identical cached calendar, likewise localtime on a LOCAL
\* value; a switch applied twice in a row gives the state it gives applied
\* once; utc followed by localtime, or the reverse, never changes sec or usec.
C13_SwitchIdempotent ==
  [][SwitchStep =>
       /\ SelfNext.sec = ret'.a.sec
       /\ SelfNext.usec = ret'.a.usec
       /\ (ret'.a.timezone = ZoneOf(ret'.op)) => SelfNext = ret'.a
       /\ (ret.op = ret'.op /\ ret.self = ret'.self /\ ret.a.used)
            => (heap' = heap /\ data' = data)
       /\ (ret.op \in Switches /\ ret.self = ret'.self /\ ret.a.used)
            => (SelfNext.sec = ret.a.sec /\ SelfNext.usec = ret.a.usec)]_vars

\* C13 happens: utc was called a second time on a value with a fraction of a
\* second, and the value is the UTC value it was
C13_Witness ==
  /\ steps = 2
  /\ ret.op = "utc"
  /\ ret.a.used
  /\ ret.a.timezone = MRB_TIMEZONE_UTC
  /\ ret.a.usec > 0
  /\ ret.exc = "none"
  /\ heap[data[ret.self]] = ret.a

\* the methods that return a result and leave their operands alone
PureMethods == {"plus", "minus", "diff", "eq", "cmp", "hash", "getutc", "getlocal"}

\* C14: +, - (with a duration or a Time), ==, <=>, hash, getutc and getlocal
\* never modify sec, usec, timezone or the cached calendar of an operand (or
\* of any other object); + and - with a duration return a new value in the
\* zone of the left operand, getutc / getlocal a new value in UTC / LOCAL
\* mode with the sec and usec of the receiver.
C14_OperandsUnchanged ==
  [][(steps' = steps + 1 /\ ret'.op \in PureMethods) =>
       /\ \A o \in Objs :
            (o # ret'.out) =>
              /\ data'[o] = data[o]
              /\ Deref(heap', data', o) = Deref(heap, data, o)
       /\ (ret'.out # 0) =>
            /\ OutNext.used
            /\ \A o \in Objs : (o # ret'.out) => data'[o] # data'[ret'.out]
       /\ (ret'.op \in {"plus", "minus"} /\ ret'.out # 0) =>
            OutNext.timezone = ret'.a.timezone
       /\ (ret'.op \in {"getutc", "getlocal"} /\ ret'.out # 0) =>
            /\ OutNext.timezone = (IF ret'.op = "getutc" THEN MRB_TIMEZONE_UTC
                                                       ELSE MRB_TIMEZONE_LOCAL)
            /\ OutNext.sec = ret'.a.sec
            /\ OutNext.usec = ret'.a.usec]_vars

\* C14 happens: getutc of a LOCAL value returned a UTC value of the same
\* instant in another object, and the receiver is as it was
C14_Witness ==
  /\ ret.op = "getutc"
  /\ ret.a.used
  /\ ret.a.timezone = MRB_TIMEZONE_LOCAL
  /\ ReturnedObject
  /\ ret.out # ret.self
  /\ Out.timezone = MRB_TIMEZONE_UTC
  /\ Out.sec = ret.a.sec
  /\ heap[data[ret.self]] = ret.a

\* C15: no two Time objects share storage: after any constructions, copies,
\* getutc / getlocal, + and -, a utc or localtime switch or a re-initialize
\* of one object leaves sec, usec, timezone and the cached calendar of every
\* other object unchanged, the objects it was copied from or that were
\* derived from it included.
C15_NoSharedStorage ==
  [][/\ \A o1, o2 \in Objs :
          (o1 # o2 /\ data'[o1] # NULL) => data'[o1] # data'[o2]
     /\ (steps' = steps + 1 /\ ret'.op \in Switches \cup {"initialize"}) =>
          \A o \in Objs :
            (o # ret'.self) =>
              /\ data'[o] = data[o]
              /\ Deref(heap', data', o) = Deref(heap, data, o)]_vars

\* C15 happens: a switch changed the zone of an object while another object,
\* its copy or its source, still holds the struct the receiver had
C15_Witness ==
  /\ steps = 2
  /\ ret.op \in Switches
  /\ ret.exc = "none"
  /\ heap[data[ret.self]].timezone # ret.a.timezone
  /\ \E o \in Objs : o # ret.self /\ data[o] # NULL /\ heap[data[o]] = ret.a

\* the methods of the claim that take a receiver
ReceiverMethods ==
  Readers \cup {"hash", "to_s", "plus", "minus", "diff", "utc", "localtime",
                "getutc", "getlocal"}

\* the last call was made on an object whose data pointer is NULL
UninitializedReceiver == ret.self # 0 /\ ~ret.a.used

\* the last call raised "uninitialized time" and returned nothing
RaisedUninitialized ==
  /\ ret.exc = "uninitialized time"
  /\ ret.out = 0
  /\ ret.val = 0
  /\ ~ret.nil
  /\ ret.hash = <<>>
  /\ ret.str = <<>>

\* C16 as stated: every operation on an object that was allocated but never
\* constructed raises "uninitialized time" and returns no result: the field
\* readers, to_i, usec, hash, to_s, +, -, utc, localtime, getutc, getlocal,
\* initialize_copy from such a source, and also == and <=> with such a
\* receiver.
C16_AllRaise ==
  /\ (ret.op \in ReceiverMethods \cup {"eq", "cmp"} /\ UninitializedReceiver)
       => RaisedUninitialized
  /\ (ret.op = "initialize_copy" /\ ~ret.b.used) => RaisedUninitialized

\* C16, amended: the field readers, to_i, usec, hash, to_s, +, -, utc,
\* localtime, getutc and getlocal on such a receiver, and initialize_copy
\* from such a source into another object, raise "uninitialized time", return
\* no result and change no object; == returns false and <=> returns nil,
\* without an error, when the receiver or the argument is such an object, and
\* initialize_copy of an object from itself returns it without an error.
C16_RaiseOrNil ==
  /\ (ret.op \in ReceiverMethods /\ UninitializedReceiver) => RaisedUninitialized
  /\ (ret.op = "initialize_copy" /\ ~ret.b.used /\ ret.self # ret.other) =>
       /\ RaisedUninitialized
       /\ Deref(heap, data, ret.self) = ret.a
  /\ (ret.op = "initialize_copy" /\ ret.self = ret.other) =>
       (ret.exc = "none" /\ ret.out = ret.self)
  /\ (ret.op = "eq" /\ (~ret.a.used \/ ~ret.b.used)) =>
       (ret.exc = "none" /\ ret.val = 0)
  /\ (ret.op = "cmp" /\ (~ret.a.used \/ ~ret.b.used)) =>
       (ret.exc = "none" /\ ret.nil)

\* C16 happens: to_s was called on an object that was never initialized and
\* raised
C16_Witness ==
  /\ ret.op = "to_s"
  /\ UninitializedReceiver
  /\ RaisedUninitialized

\* the struct at address a is the data of some object
Wrapped(a) == \E i \in Objs : data[i] = a

\* the last call raised inside time_update_datetime
OutOfTimeRange == ret.exc = "out of Time range"

Evaluating == mrb.pc \in {"check", "branch", "finish"}

\* C18: mrb_debug_eval sets mrb->code_fetch_hook to NULL for the whole
\* evaluation and restores it to the value it had on entry on every path
\* that returns (syntax error, direct_eval, instance_eval of the
\* begin/rescue text); when the syntax check leaves mrb->exc set, the
\* expression is not evaluated, the exception object becomes the result and
\* mrb->exc is cleared before the return.
C18_HookRestored ==
  /\ Evaluating => mrb.code_fetch_hook = NULL
  /\ mrb.pc = "returned" => mrb.code_fetch_hook = mrb.entry
  /\ (mrb.pc \in {"finish", "returned"} /\ mrb.checked # NULL) =>
       /\ ~mrb.evaluated
       /\ mrb.v = [obj |-> mrb.checked, is_exc |-> TRUE]
       /\ mrb.exc = NULL
  /\ (mrb.pc = "returned" /\ mrb.checked # NULL) => mrb.s = mrb.checked

\* C18 happens: a call made with a hook installed found a syntax error and
\* returned
C18_Witness ==
  /\ mrb.pc = "returned"
  /\ mrb.entry # NULL
  /\ mrb.checked = SyntaxErrorObj
  /\ mrb.s = SyntaxErrorObj

=============================================================================
